---- MODULE Spec2Model ----
(***************************************************************************)
(* generate_chart.py: yearly additions/deletions extracted from the output *)
(* of `git log --numstat` and drawn as a diverging bar chart.              *)
(*                                                                         *)
(* A Python str is a sequence of one-character strings, so that strip,     *)
(* split, int(), lower(), `in` and endswith are computed on characters.    *)
(***************************************************************************)
EXTENDS Integers, Sequences, FiniteSets, TLC

VARIABLES pc, returncode, stdout, lines, lineNo, current_year, stats,
          console, years, additions, deletions, barIdx, bars, texts,
          xticks, xticklabels, savedFiles, error

vars == <<pc, returncode, stdout, lines, lineNo, current_year, stats,
          console, years, additions, deletions, barIdx, bars, texts,
          xticks, xticklabels, savedFiles, error>>

----------------------------------------------------------------------------
(* Characters and Python's str methods                                     *)

TAB == "\t"
NL == "\n"

\* current_year = None; the only use of None is the truth test of line 29
None == <<>>

Whitespace == {" ", "\t", "\n", "\r"}

Digits == {"0", "1", "2", "3", "4", "5", "6", "7", "8", "9"}

DigitVal(c) ==
    CASE c = "0" -> 0 [] c = "1" -> 1 [] c = "2" -> 2 [] c = "3" -> 3
      [] c = "4" -> 4 [] c = "5" -> 5 [] c = "6" -> 6 [] c = "7" -> 7
      [] c = "8" -> 8 [] c = "9" -> 9

DigitChar(n) ==
    CASE n = 0 -> "0" [] n = 1 -> "1" [] n = 2 -> "2" [] n = 3 -> "3"
      [] n = 4 -> "4" [] n = 5 -> "5" [] n = 6 -> "6" [] n = 7 -> "7"
      [] n = 8 -> "8" [] n = 9 -> "9"

\* code point of a character of a year key (keys are made of digits)
Ord(c) == 48 + DigitVal(c)

\* str.lower() on one character
LowerChar(c) ==
    CASE c = "A" -> "a" [] c = "C" -> "c" [] c = "D" -> "d" [] c = "M" -> "m"
      [] c = "O" -> "o" [] c = "P" -> "p" [] c = "R" -> "r" [] c = "S" -> "s"
      [] c = "T" -> "t" [] OTHER -> c

Lower(s) == [i \in 1..Len(s) |-> LowerChar(s[i])]

RECURSIVE LStrip(_)
LStrip(s) ==
    IF s # <<>> /\ Head(s) \in Whitespace THEN LStrip(Tail(s)) ELSE s

RECURSIVE RStrip(_)
RStrip(s) ==
    IF s # <<>> /\ s[Len(s)] \in Whitespace
    THEN RStrip(SubSeq(s, 1, Len(s) - 1)) ELSE s

\* str.strip()
Strip(s) == RStrip(LStrip(s))

\* str.split(sep) for a one-character separator: always at least one field
RECURSIVE SplitFrom(_, _, _, _)
SplitFrom(s, sep, i, cur) ==
    IF i > Len(s) THEN <<cur>>
    ELSE IF s[i] = sep THEN <<cur>> \o SplitFrom(s, sep, i + 1, <<>>)
    ELSE SplitFrom(s, sep, i + 1, Append(cur, s[i]))

Split(s, sep) == SplitFrom(s, sep, 1, <<>>)

\* sub in s
Contains(s, sub) ==
    \E i \in 0..(Len(s) - Len(sub)) : SubSeq(s, i + 1, i + Len(sub)) = sub

\* s.endswith(suf)
EndsWith(s, suf) ==
    /\ Len(s) >= Len(suf)
    /\ SubSeq(s, Len(s) - Len(suf) + 1, Len(s)) = suf

\* re.match(r'^\d{4}$', line) on a stripped line (no newline left in it)
IsYearLine(line) == Len(line) = 4 /\ \A i \in 1..4 : line[i] \in Digits

RECURSIVE DigitsValue(_, _)
DigitsValue(s, acc) ==
    IF s = <<>> THEN acc
    ELSE IF Head(s) = "_" THEN DigitsValue(Tail(s), acc)
    ELSE DigitsValue(Tail(s), 10 * acc + DigitVal(Head(s)))

\* the digit part of an int literal: digits, single underscores between them
IsDigitPart(s) ==
    /\ s # <<>>
    /\ \A i \in 1..Len(s) : s[i] \in Digits \cup {"_"}
    /\ s[1] # "_" /\ s[Len(s)] # "_"
    /\ \A i \in 1..(Len(s) - 1) : ~(s[i] = "_" /\ s[i + 1] = "_")

\* int(s): ok = FALSE stands for ValueError
PyInt(s) ==
    LET t == Strip(s)
        signed == t # <<>> /\ Head(t) \in {"+", "-"}
        body == IF signed THEN Tail(t) ELSE t
    IN  IF IsDigitPart(body)
        THEN [ok |-> TRUE,
              val |-> IF signed /\ Head(t) = "-"
                      THEN 0 - DigitsValue(body, 0) ELSE DigitsValue(body, 0)]
        ELSE [ok |-> FALSE, val |-> 0]

\* a count that does not parse is taken as 0 instead of raising
ParseField_lenient(p) ==
    IF p = <<"-">> \/ ~PyInt(p).ok THEN [ok |-> TRUE, val |-> 0] ELSE PyInt(p)

\* int(p) if p != '-' else 0
ParseField(p) == IF p = <<"-">> THEN [ok |-> TRUE, val |-> 0] ELSE PyInt(p)

RECURSIVE NatStr(_)
NatStr(n) ==
    IF n < 10 THEN <<DigitChar(n)>> ELSE Append(NatStr(n \div 10), DigitChar(n % 10))

\* str(n)
Str(n) == IF n < 0 THEN <<"-">> \o NatStr(0 - n) ELSE NatStr(n)

Abs(n) == IF n < 0 THEN 0 - n ELSE n

MARKER == <<"s", "p", "o", "r", "t", "s", "_", "a", "c", "t">>
EXT == <<".", "m", "d">>

\* 'sports_act' in name.lower() or name.endswith('.md')
FileFilter(name) == Contains(Lower(name), MARKER) \/ EndsWith(name, EXT)

----------------------------------------------------------------------------
(* The captured output of the git command                                  *)

MaxLines == 4

YEAR_A == <<"2", "0", "2", "2">>
YEAR_B == <<"2", "0", "2", "3">>
YEAR_C == <<"1", "9", "9", "9">>

\* first and second fields of a numstat line
NumPool ==
    { <<"0">>, <<"7">>, <<"1", "2">>, <<"-">>, <<"x">>, <<"-", "3">>,
      <<"+", "2">>, <<"4", " ">>, <<"1", "_", "0">>, <<"-", "-">> }

\* file names
PathPool ==
    { <<"a", ".", "m", "d">>,
      <<"a", ".", "m", "d", " ">>,
      <<"b", ".", "t", "x", "t">>,
      <<"A", ".", "M", "D">>,
      <<"m", "d">>,
      <<"S", "p", "o", "r", "t", "s", "_", "A", "c", "t", ".", "t", "x", "t">>,
      <<"d", "/", "s", "p", "o", "r", "t", "s", "_", "a", "c", "t", "2">>,
      <<"s", "p", "o", "r", "t", "s", "a", "c", "t">> }

\* fields of a line with a single tab
PairPool ==
    NumPool \cup { <<".", "m", "d">>, <<"a", ".", "m", "d">>, MARKER,
                   <<"5", ".", "m", "d">>, <<"b">> }

NumstatLines ==
    { a \o <<TAB>> \o d \o <<TAB>> \o p : a \in NumPool, d \in NumPool, p \in PathPool }

PairLines == { f \o <<TAB>> \o g : f \in PairPool, g \in PairPool }

OtherLines ==
    { <<>>, <<" ">>, <<"a", "b", "c">>, <<"2", "0", "2", "2", "2">>,
      <<"2", "0", "2">>, <<" ", "2", "0", "2", "3", "\r">>,
      <<"x", TAB, "2", "0", "2", "3">>,
      <<"3", TAB, "1", TAB, "b", TAB, "a", ".", "m", "d">>,
      <<"3", TAB, "1", TAB, "a", ".", "m", "d", TAB, "b">>,
      <<"5", TAB, "3", TAB>>, <<TAB, "3", TAB, "a", ".", "m", "d">> }

LINE_MD == <<"5", TAB, "3", TAB, "a", ".", "m", "d">>
LINE_MARKER == <<"1", "2", TAB, "-", TAB, "s", "p", "o", "r", "t", "s", "_", "a", "c", "t">>
LINE_TXT == <<"7", TAB, "2", TAB, "b", ".", "t", "x", "t">>
LINE_BAD == <<"x", TAB, "1", TAB, "a", ".", "m", "d">>

\* lines combined freely, up to MaxLines of them
LongCorpus == { YEAR_A, YEAR_B, LINE_MD, LINE_MARKER, LINE_TXT, LINE_BAD }

\* lines that count for nothing, between a year line and its numstat lines
Fillers == { <<>>, <<" ", TAB>>, <<"a", "b", "c">>, LINE_TXT, LINE_BAD }

\* git terminates every line it prints with a newline
RECURSIVE JoinLines(_)
JoinLines(ls) ==
    IF ls = <<>> THEN <<>> ELSE Head(ls) \o <<NL>> \o JoinLines(Tail(ls))

\* one line, alone or under a year cursor
SingleStreams ==
    { JoinLines(pre \o <<l>>) :
        pre \in {<<>>, <<YEAR_A>>},
        l \in NumstatLines \cup PairLines \cup OtherLines }

LongStreams ==
    { JoinLines(ls) : ls \in UNION { [1..n -> LongCorpus] : n \in 0..MaxLines } }

\* two commit blocks with fillers in the first
BlockStreams ==
    { JoinLines(<<YEAR_A, f1, LINE_MD, f2, LINE_MARKER, y, LINE_MD>>) :
        f1 \in Fillers, f2 \in Fillers, y \in {YEAR_A, YEAR_C, <<>>} }

Streams == SingleStreams \cup LongStreams \cup BlockStreams

\* what a failing git has printed: nothing, or one line
FailStreams == { <<>> } \cup { JoinLines(<<l>>) : l \in LongCorpus }

\* exit statuses of git: success, and "fatal: not a git repository"
ReturnCodes == {0, 128}

----------------------------------------------------------------------------
(* get_git_stats                                                           *)

\* defaultdict(lambda: {"additions": 0, "deletions": 0}) with no key yet
EmptyStats == [y \in {} |-> [additions |-> 0, deletions |-> 0]]

\* the totals are assigned instead of added to
StatsAdd_assign(st, year, a, d) ==
    [y \in DOMAIN st \cup {year} |->
        IF y = year THEN [additions |-> a, deletions |-> d] ELSE st[y]]

\* stats[year]["additions"] += a; stats[year]["deletions"] += d
StatsAdd(st, year, a, d) ==
    LET old == IF year \in DOMAIN st THEN st[year]
               ELSE [additions |-> 0, deletions |-> 0]
    IN  [y \in DOMAIN st \cup {year} |->
            IF y = year
            THEN [additions |-> old.additions + a, deletions |-> old.deletions + d]
            ELSE st[y]]

\* the additions are counted before the deletions are parsed
CountLine_partial(st, year, parts) ==
    LET a == ParseField(parts[1])
        d == ParseField(parts[2])
    IN  IF a.ok /\ FileFilter(parts[Len(parts)])
        THEN StatsAdd(st, year, a.val, IF d.ok THEN d.val ELSE 0)
        ELSE st

\* the entry of the year is read before the file filter is applied
CountLine_touch(st, year, parts) ==
    LET a == ParseField(parts[1])
        d == ParseField(parts[2])
    IN  IF a.ok /\ d.ok
        THEN IF FileFilter(parts[Len(parts)])
             THEN StatsAdd(st, year, a.val, d.val)
             ELSE StatsAdd(st, year, 0, 0)
        ELSE st

\* the body of the try block, lines 33-38
CountLine(st, year, parts) ==
    LET a == ParseField(parts[1])
        d == ParseField(parts[2])
    IN  IF a.ok /\ d.ok /\ FileFilter(parts[Len(parts)])
        THEN StatsAdd(st, year, a.val, d.val)
        ELSE st

\* one iteration of the for loop on an already stripped line: <<year, stats>>
ScanResult(line, year, st) ==
    IF line = <<>> THEN <<year, st>>
    ELSE IF IsYearLine(line) THEN <<line, st>>
    ELSE IF year # None /\ \E i \in 1..Len(line) : line[i] = TAB
    THEN LET parts == Split(line, TAB)
         IN  IF Len(parts) >= 2 THEN <<year, CountLine(st, year, parts)>>
             ELSE <<year, st>>
    ELSE <<year, st>>

Init ==
    /\ pc = "start"
    /\ returncode = 0
    /\ stdout = <<>>
    /\ lines = <<>>
    /\ lineNo = 1
    /\ current_year = None
    /\ stats = EmptyStats
    /\ console = <<>>
    /\ years = <<>>
    /\ additions = <<>>
    /\ deletions = <<>>
    /\ barIdx = 0
    /\ bars = <<>>
    /\ texts = <<>>
    /\ xticks = <<>>
    /\ xticklabels = <<>>
    /\ savedFiles = <<>>
    /\ error = "none"

chartVars == <<years, additions, deletions, barIdx, bars, texts, xticks, xticklabels>>
scanVars == <<returncode, stdout, lines, lineNo, current_year, stats>>

\* line 107
PrintStart ==
    /\ pc = "start"
    /\ console' = Append(console, [text |-> "Extracting git statistics...", args |-> <<>>])
    /\ pc' = "run_git"
    /\ UNCHANGED <<scanVars, chartVars, savedFiles, error>>

\* lines 14-20: the command ran; its exit status is not looked at
RunGit ==
    /\ pc = "run_git"
    /\ \E rc \in ReturnCodes :
       \E out \in (IF rc = 0 THEN Streams ELSE FailStreams) :
          /\ returncode' = rc
          /\ stdout' = out
          /\ lines' = Split(out, NL)
    /\ lineNo' = 1
    /\ current_year' = None
    /\ stats' = EmptyStats
    /\ pc' = "scan"
    /\ UNCHANGED <<console, chartVars, savedFiles, error>>

\* line 15: subprocess.run raises when git cannot be started
RunGitNotFound ==
    /\ pc = "run_git"
    /\ error' = "FileNotFoundError"
    /\ pc' = "crashed"
    /\ UNCHANGED <<scanVars, console, chartVars, savedFiles>>

\* lines 20-40, one iteration
ScanLine ==
    /\ pc = "scan"
    /\ lineNo <= Len(lines)
    /\ LET r == ScanResult(Strip(lines[lineNo]), current_year, stats)
       IN  /\ current_year' = r[1]
           /\ stats' = r[2]
    /\ lineNo' = lineNo + 1
    /\ UNCHANGED <<pc, returncode, stdout, lines, console, chartVars, savedFiles, error>>

\* line 42, then line 110
ReturnStats ==
    /\ pc = "scan"
    /\ lineNo > Len(lines)
    /\ console' = Append(console, [text |-> "Found data for {} years:",
                                   args |-> <<Str(Cardinality(DOMAIN stats))>>])
    /\ pc' = "summary"
    /\ UNCHANGED <<scanVars, chartVars, savedFiles, error>>

----------------------------------------------------------------------------
(* __main__ summary and create_chart                                       *)

\* a < b for Python strs made of digits: comparison by code points
RECURSIVE StrLess(_, _)
StrLess(a, b) ==
    IF b = <<>> THEN FALSE
    ELSE IF a = <<>> THEN TRUE
    ELSE IF Ord(Head(a)) # Ord(Head(b)) THEN Ord(Head(a)) < Ord(Head(b))
    ELSE StrLess(Tail(a), Tail(b))

\* sorted(keys)
RECURSIVE Sorted(_)
Sorted(keys) ==
    IF keys = {} THEN <<>>
    ELSE LET m == CHOOSE k \in keys : \A o \in keys \ {k} : StrLess(k, o)
         IN  <<m>> \o Sorted(keys \ {m})

\* f"  {year}: +{stats[year]['additions']} -{stats[year]['deletions']}"
SummaryLine(st, year) ==
    [text |-> "  {}: +{} -{}",
     args |-> <<year, Str(st[year].additions), Str(st[year].deletions)>>]

\* lines 111-112, the whole loop
PrintSummary ==
    /\ pc = "summary"
    /\ LET ys == Sorted(DOMAIN stats)
       IN  console' = console \o [i \in 1..Len(ys) |-> SummaryLine(stats, ys[i])]
    /\ pc' = "chart"
    /\ UNCHANGED <<scanVars, chartVars, savedFiles, error>>

\* lines 47-59
SetupChart ==
    /\ pc = "chart"
    /\ LET ys == Sorted(DOMAIN stats)
       IN  /\ years' = ys
           /\ additions' = [i \in 1..Len(ys) |-> stats[ys[i]].additions]
           /\ deletions' = [i \in 1..Len(ys) |-> 0 - stats[ys[i]].deletions]
    /\ barIdx' = 0
    /\ bars' = <<>>
    /\ texts' = <<>>
    /\ pc' = "bars"
    /\ UNCHANGED <<scanVars, console, xticks, xticklabels, savedFiles, error>>

\* ax.bar / ax.text of lines 64-67 for category i
AddBar(i, add) ==
    IF add > 0
    THEN [bars |-> <<[x |-> i, height |-> add, color |-> "#90EE90"]>>,
          texts |-> <<[x |-> i, y |-> add + 5, s |-> Str(add), va |-> "bottom"]>>]
    ELSE [bars |-> <<>>, texts |-> <<>>]

\* the label of the deletion bar keeps the sign
DelBar_signed(i, dele) ==
    IF dele < 0
    THEN [bars |-> <<[x |-> i, height |-> dele, color |-> "#FF7F7F"]>>,
          texts |-> <<[x |-> i, y |-> dele - 5, s |-> Str(dele), va |-> "top"]>>]
    ELSE [bars |-> <<>>, texts |-> <<>>]

\* ax.bar / ax.text of lines 70-73 for category i
DelBar(i, dele) ==
    IF dele < 0
    THEN [bars |-> <<[x |-> i, height |-> dele, color |-> "#FF7F7F"]>>,
          texts |-> <<[x |-> i, y |-> dele - 5, s |-> Str(Abs(dele)), va |-> "top"]>>]
    ELSE [bars |-> <<>>, texts |-> <<>>]

\* the figure is saved inside the loop, after each year
DrawYear_saving ==
    /\ pc = "bars"
    /\ barIdx < Len(years)
    /\ LET up == AddBar(barIdx, additions[barIdx + 1])
           down == DelBar(barIdx, deletions[barIdx + 1])
       IN  /\ bars' = bars \o up.bars \o down.bars
           /\ texts' = texts \o up.texts \o down.texts
           /\ savedFiles' = <<[bars |-> bars', texts |-> texts',
                               xticks |-> xticks, xticklabels |-> xticklabels]>>
    /\ barIdx' = barIdx + 1
    /\ UNCHANGED <<pc, scanVars, console, years, additions, deletions,
                   xticks, xticklabels, error>>

\* lines 62-73, one iteration (barIdx is enumerate's i)
DrawYear ==
    /\ pc = "bars"
    /\ barIdx < Len(years)
    /\ LET up == AddBar(barIdx, additions[barIdx + 1])
           down == DelBar(barIdx, deletions[barIdx + 1])
       IN  /\ bars' = bars \o up.bars \o down.bars
           /\ texts' = texts \o up.texts \o down.texts
    /\ barIdx' = barIdx + 1
    /\ UNCHANGED <<pc, scanVars, console, years, additions, deletions,
                   xticks, xticklabels, savedFiles, error>>

\* lines 54 and 76-94: one tick per year, labelled with the year
StyleChart ==
    /\ pc = "bars"
    /\ barIdx >= Len(years)
    /\ xticks' = [i \in 1..Len(years) |-> i - 1]
    /\ xticklabels' = years
    /\ pc' = "save"
    /\ UNCHANGED <<scanVars, console, years, additions, deletions, barIdx,
                   bars, texts, savedFiles, error>>

\* nothing is written when there is no bar
SaveFig_skipEmpty ==
    /\ pc = "save"
    /\ savedFiles' = IF bars = <<>> THEN savedFiles
                     ELSE Append(savedFiles,
                                 [bars |-> bars, texts |-> texts,
                                  xticks |-> xticks, xticklabels |-> xticklabels])
    /\ pc' = "report"
    /\ UNCHANGED <<scanVars, console, chartVars, error>>

\* lines 96-98: the figure as drawn so far goes to output_path
SaveFig ==
    /\ pc = "save"
    /\ savedFiles' = Append(savedFiles,
                            [bars |-> bars, texts |-> texts,
                             xticks |-> xticks, xticklabels |-> xticklabels])
    /\ pc' = "report"
    /\ UNCHANGED <<scanVars, console, chartVars, error>>

\* line 97 raising: output path not writable, disk full
SaveFigFails ==
    /\ pc = "save"
    /\ error' = "OSError"
    /\ pc' = "crashed"
    /\ UNCHANGED <<scanVars, console, chartVars, savedFiles>>

\* line 99
PrintSaved ==
    /\ pc = "report"
    /\ console' = Append(console, [text |-> "Chart saved to {}", args |-> <<>>])
    /\ pc' = "done"
    /\ UNCHANGED <<scanVars, chartVars, savedFiles, error>>

Next ==
    \/ PrintStart
    \/ RunGit
    \/ RunGitNotFound
    \/ ScanLine
    \/ ReturnStats
    \/ PrintSummary
    \/ SetupChart
    \/ DrawYear
    \/ StyleChart
    \/ SaveFig
    \/ SaveFigFails
    \/ PrintSaved

Spec == Init /\ [][Next]_vars

----------------------------------------------------------------------------
(* Vocabulary of the properties                                            *)

Scanning == pc = "scan" /\ lineNo <= Len(lines)
Returned == pc \in {"summary", "chart", "bars", "save", "report", "done"}
Rendered == pc \in {"save", "report", "done"}

\* line j as the loop sees it, and its tab-separated fields
SLine(j) == Strip(lines[j])
Fields(j) == Split(SLine(j), TAB)

Max(S) == CHOOSE m \in S : \A o \in S : o <= m

\* the most recent 4-digit line before line j
CursorAt(j) ==
    LET ys == {k \in 1..(j - 1) : IsYearLine(SLine(k))}
    IN  IF ys = {} THEN None ELSE SLine(Max(ys))

\* line j parsed (both counts are an int or '-') and passed the file filter
Qualifies(j) ==
    /\ Len(Fields(j)) >= 2
    /\ ParseField(Fields(j)[1]).ok
    /\ ParseField(Fields(j)[2]).ok
    /\ FileFilter(Fields(j)[Len(Fields(j))])

\* line j has a count that is neither an int nor '-'
Malformed(j) ==
    /\ Len(Fields(j)) >= 2
    /\ ~ParseField(Fields(j)[1]).ok \/ ~ParseField(Fields(j)[2]).ok

RECURSIVE SumOver(_, _)
SumOver(S, k) ==
    IF S = {} THEN 0
    ELSE LET j == CHOOSE x \in S : TRUE
         IN  ParseField(Fields(j)[k]).val + SumOver(S \ {j}, k)

\* the qualifying lines before line n that fall under year y
LinesOf(y, n) == {j \in 1..(n - 1) : Qualifies(j) /\ CursorAt(j) = y}

YearsSeen(n) == {CursorAt(j) : j \in 1..n} \ {None}

\* a count as git prints it: decimal digits, or '-' for a binary file
IsCount(f) == f = <<"-">> \/ (f # <<>> /\ \A i \in 1..Len(f) : f[i] \in Digits)
CountVal(f) == IF f = <<"-">> THEN 0 ELSE DigitsValue(f, 0)

\* the unstripped line read as <a> TAB <d> TAB <path>
RawParts(l) == Split(l, TAB)
RawWellFormed(l) ==
    /\ Len(RawParts(l)) >= 3
    /\ IsCount(RawParts(l)[1])
    /\ IsCount(RawParts(l)[2])
RawPath(l) == SubSeq(l, Len(RawParts(l)[1]) + Len(RawParts(l)[2]) + 3, Len(l))
PathMatches(path) == Contains(Lower(path), MARKER) \/ EndsWith(path, EXT)

----------------------------------------------------------------------------
(* Properties                                                              *)

\* C1: a line <a>\t<d>\t<path> with a and d decimal or '-', read under year Y,
\* adds exactly (value(a), value(d)) to Y when path contains 'sports_act'
\* case-insensitively or ends with '.md', and changes nothing otherwise.
C1_NumstatLineCounted ==
    [][ (Scanning /\ current_year # None /\ RawWellFormed(lines[lineNo]))
        => LET l == lines[lineNo]
           IN  IF PathMatches(RawPath(l))
               THEN stats' = StatsAdd(stats, current_year,
                                      CountVal(RawParts(l)[1]), CountVal(RawParts(l)[2]))
               ELSE stats' = stats ]_vars

\* C2: the totals of every year are never negative.
C2_TotalsNonNegative ==
    \A y \in DOMAIN stats : stats[y].additions >= 0 /\ stats[y].deletions >= 0

\* C3: a year is a key only if a line that parsed and passed the filter was
\* attributed to it; a year with no such line has no entry at all.
C3_KeysHaveQualifyingLine ==
    pc \notin {"start", "run_git"} =>
        \A y \in DOMAIN stats : y # None /\ LinesOf(y, lineNo) # {}

C3_Witness ==
    /\ pc = "summary"
    /\ stats # EmptyStats
    /\ \E y \in YearsSeen(Len(lines)) : y \notin DOMAIN stats

\* the loop run from line i on, by the code's own step
RECURSIVE ScanFrom(_, _, _, _)
ScanFrom(ls, i, year, st) ==
    IF i > Len(ls) THEN st
    ELSE LET r == ScanResult(Strip(ls[i]), year, st)
         IN  ScanFrom(ls, i + 1, r[1], r[2])

WellFormedOnly == SelectSeq(lines, LAMBDA l :
                     LET f == Split(Strip(l), TAB)
                     IN  ~(Len(f) >= 2 /\ (~ParseField(f[1]).ok \/ ~ParseField(f[2]).ok)))

\* C4: a line with a malformed count is skipped without error: the mapping and
\* the cursor stay as they were, the loop goes on, and the result is the one
\* of the stream without the malformed lines.
C4_MalformedLineSkipped ==
    [][ /\ (Scanning /\ Malformed(lineNo))
           => /\ stats' = stats
              /\ current_year' = current_year
              /\ pc' = "scan" /\ lineNo' = lineNo + 1
        /\ (pc = "scan" /\ pc' = "summary")
           => stats = ScanFrom(WellFormedOnly, 1, None, EmptyStats) ]_vars

C4_Witness ==
    /\ pc = "summary"
    /\ \E j \in 1..Len(lines) :
          /\ Malformed(j) /\ CursorAt(j) # None
          /\ ~ParseField(Fields(j)[1]).ok /\ ParseField(Fields(j)[2]).ok
          /\ FileFilter(Fields(j)[Len(Fields(j))])
          /\ \E k \in (j + 1)..Len(lines) : Qualifies(k) /\ CursorAt(k) \in DOMAIN stats

\* C5: when the git command fails, extraction ends in a fatal error: no
\* mapping is returned and no chart is rendered or written.
C5_FailedCommandIsFatal ==
    returncode # 0 => (~Returned /\ savedFiles = <<>>)

----------------------------------------------------------------------------
Range(f) == {f[i] : i \in DOMAIN f}

UpBars(i) == {k \in 1..Len(bars) : bars[k].x = i /\ bars[k].height > 0}
DownBars(i) == {k \in 1..Len(bars) : bars[k].x = i /\ bars[k].height < 0}

\* C6: one category per year key in ascending order; at each year an upward
\* bar of height additions iff additions > 0, a downward bar of height
\* -deletions iff deletions > 0, each with one label showing the absolute
\* value of its height.
C6_ChartMatchesMapping ==
    Rendered =>
        /\ Len(xticklabels) = Cardinality(DOMAIN stats)
        /\ Range(xticklabels) = DOMAIN stats
        /\ \A i, j \in 1..Len(xticklabels) : i < j => StrLess(xticklabels[i], xticklabels[j])
        /\ xticks = [i \in 1..Len(xticklabels) |-> i - 1]
        /\ \A i \in 1..Len(xticklabels) :
              LET rec == stats[xticklabels[i]]
              IN  /\ Cardinality(UpBars(i - 1)) = IF rec.additions > 0 THEN 1 ELSE 0
                  /\ Cardinality(DownBars(i - 1)) = IF rec.deletions > 0 THEN 1 ELSE 0
                  /\ \A k \in UpBars(i - 1) : bars[k].height = rec.additions
                  /\ \A k \in DownBars(i - 1) : bars[k].height = 0 - rec.deletions
        /\ \A k \in 1..Len(bars) : bars[k].x \in Range(xticks) /\ bars[k].height # 0
        /\ Len(texts) = Len(bars)
        /\ \A k \in 1..Len(bars) :
              /\ texts[k].x = bars[k].x
              /\ texts[k].s = NatStr(Abs(bars[k].height))
        /\ Len(bars) = Cardinality({y \in DOMAIN stats : stats[y].additions > 0})
                       + Cardinality({y \in DOMAIN stats : stats[y].deletions > 0})

C6_Witness ==
    /\ pc = "done"
    /\ Len(xticklabels) >= 2
    /\ \E y \in DOMAIN stats : stats[y].additions > 0 /\ stats[y].deletions > 0
    /\ \E y \in DOMAIN stats : stats[y].additions > 0 /\ stats[y].deletions = 0

SavedMessage == [text |-> "Chart saved to {}", args |-> <<>>]

\* C7: an empty mapping is rendered without an exception: no bar, no
\* category, and the image is still written and reported; and no output from
\* the command gives the empty mapping.
C7_EmptyMappingRendered ==
    /\ (Returned /\ stdout = <<>>) => stats = EmptyStats
    /\ (Returned /\ stats = EmptyStats) =>
          /\ pc = "bars" => barIdx >= Len(years)
          /\ bars = <<>> /\ texts = <<>>
          /\ Rendered => (xticks = <<>> /\ xticklabels = <<>>)
          /\ pc = "done" =>
                /\ Len(savedFiles) = 1
                /\ savedFiles[1].bars = <<>> /\ savedFiles[1].xticklabels = <<>>
                /\ console[Len(console)] = SavedMessage
    /\ (pc = "crashed" /\ error # "FileNotFoundError") => error = "OSError"

C7_Witness ==
    pc = "done" /\ stdout = <<>> /\ Len(savedFiles) = 1

C9_TotalsAreSumsPerYear ==
    /\ pc = "scan" => current_year = CursorAt(lineNo)
    /\ Returned =>
          LET n == Len(lines) + 1
          IN  /\ DOMAIN stats = {y \in YearsSeen(Len(lines)) : LinesOf(y, n) # {}}
              /\ \A y \in DOMAIN stats :
                    /\ stats[y].additions = SumOver(LinesOf(y, n), 1)
                    /\ stats[y].deletions = SumOver(LinesOf(y, n), 2)

C9_Witness ==
    /\ pc = "summary"
    /\ Qualifies(1)
    /\ \E y \in DOMAIN stats : Cardinality(LinesOf(y, Len(lines) + 1)) >= 2
                               /\ stats[y].additions >= 10

\* C10: a line with exactly two tab-separated fields never changes the
\* mapping: no field is both a count and a matching file name, so only lines
\* with three or more fields contribute.
C10_TwoFieldLineInert ==
    [][ Scanning =>
          /\ \A k \in 1..Len(Fields(lineNo)) :
                ~(ParseField(Fields(lineNo)[k]).ok /\ FileFilter(Fields(lineNo)[k]))
          /\ Len(Fields(lineNo)) = 2 => stats' = stats
          /\ stats' # stats => Len(Fields(lineNo)) >= 3 ]_vars

C10_Witness ==
    /\ pc = "scan" /\ lineNo > 1
    /\ CursorAt(lineNo - 1) # None
    /\ Len(Fields(lineNo - 1)) = 2
    /\ ParseField(Fields(lineNo - 1)[1]).ok
    /\ FileFilter(Fields(lineNo - 1)[2])

====
